---- MODULE Spec2Model ----
(***************************************************************************)
(* Model of the portfolio return engine (src/src/stock_returns.rs) and of  *)
(* the quote provider it consumes (src/src/yahoo_finance.rs).              *)
(*                                                                         *)
(* f64 values are modelled as exact rationals [n, d] in lowest terms, so   *)
(* rounding of the floating-point operations is not represented.  Calendar *)
(* dates are day numbers since 1970-01-01, quote timestamps are seconds    *)
(* since the epoch, and an OffsetDateTime is a record [date, time].        *)
(*                                                                         *)
(* The module also models the Monte-Carlo valuation options::expected      *)
(* (src/src/options.rs): its worker threads, its channel and its receive   *)
(* loop.                                                                   *)
(***************************************************************************)
EXTENDS Integers, Sequences, FiniteSets, TLC

VARIABLES
    portfolio,        \* item.portfolio: the Vec<Equity> handed to total_returns
    overflow_checks,  \* build profile: TRUE = integer overflow panics (dev), FALSE = wraps (release)
    now,              \* the provider's / system clock, seconds since the epoch
    ticks,            \* how often the clock advanced during the invocation
    pc,               \* position inside total_returns
    k,                \* index of the equity being processed (1-based)
    range,            \* find_dates: the global (start, end)
    historical_data,  \* find_dates: Vec<Vec<Quote>>
    every_date,       \* the global calendar returned by find_dates
    own,              \* (start, end) of the current equity, from get_range
    start_currency_adjustment,
    end_currency_adjustment,
    pending,          \* yahoo_it: the native response while the FX series is fetched
    quotes,           \* the current equity's own-range quotes
    own_quotes,       \* history: the own-range quotes of the equities folded so far
    returns,          \* BTreeMap<NaiveDate, Vec<Position>>
    fetches,          \* every request issued to the provider, in order
    faults,           \* number of requests that failed in transport
    answers,          \* for every request of `fetches`: its purpose and what came back
    outcome,          \* what total_returns returned
    y_response,       \* a YResponse as deserialized from the service's JSON
    y_quotes,         \* what YResponse::quotes() returned for it
    y_metadata,       \* what YResponse::metadata() returned for it
    values,           \* options::expected: the Options it was called with
    workers,          \* options::expected: the state of every spawned thread
    channel,          \* the samples sent on the mpsc channel and not yet received
    v,                \* options::expected: the Vec of the samples received
    expected          \* options::expected: position of the calling thread and its result

vars == <<portfolio, overflow_checks, now, ticks, pc, k, range, historical_data,
          every_date, own, start_currency_adjustment, end_currency_adjustment,
          pending, quotes, own_quotes, returns, fetches, faults, answers, outcome,
          y_response, y_quotes, y_metadata, values, workers, channel, v, expected>>

-----------------------------------------------------------------------------
(* Bounds of the model *)

MaxQuantity == 2
MaxTicks == 1
MaxScale == 2
MaxFaults == 1

-----------------------------------------------------------------------------
(* f64 arithmetic, as exact rationals *)

Abs(x) == IF x < 0 THEN -x ELSE x

RECURSIVE GCD(_, _)
GCD(a, b) == IF b = 0 THEN a ELSE GCD(b, a % b)

Rat(n, d) ==
    LET g == GCD(Abs(n), Abs(d))
        s == IF d < 0 THEN -1 ELSE 1
    IN  [n |-> s * (n \div g), d |-> s * (d \div g)]

Num(i) == [n |-> i, d |-> 1]

RMul(a, b) ==
    LET x == Rat(a.n, b.d)
        y == Rat(b.n, a.d)
    IN  Rat(x.n * y.n, x.d * y.d)

RDiv(a, b) == RMul(a, [n |-> b.d, d |-> b.n])

RAdd(a, b) ==
    LET g == GCD(a.d, b.d)
    IN  Rat(a.n * (b.d \div g) + b.n * (a.d \div g), (a.d \div g) * b.d)

RSub(a, b) == RAdd(a, [n |-> -b.n, d |-> b.d])

-----------------------------------------------------------------------------
(* Calendar *)

SecondsPerDay == 86400

IsLeap(y) == (y % 4 = 0 /\ y % 100 # 0) \/ y % 400 = 0

DaysInMonth(y, m) ==
    IF m = 2 THEN (IF IsLeap(y) THEN 29 ELSE 28)
    ELSE IF m \in {4, 6, 9, 11} THEN 30 ELSE 31

\* days since 1970-01-01 of the proleptic Gregorian date y-m-d
DaysFromCivil(y, m, d) ==
    LET yy  == IF m <= 2 THEN y - 1 ELSE y
        era == yy \div 400
        yoe == yy - era * 400
        mp  == IF m > 2 THEN m - 3 ELSE m + 9
        doy == (153 * mp + 2) \div 5 + d - 1
        doe == yoe * 365 + yoe \div 4 - yoe \div 100 + doy
    IN  era * 146097 + doe - 719468

\* NaiveDate::to_string: the "YYYY-MM-DD" text, as the triple <<YYYY, MM, DD>>
DateToString(z) ==
    LET zz  == z + 719468
        era == zz \div 146097
        doe == zz - era * 146097
        yoe == (doe - doe \div 1460 + doe \div 36524 - doe \div 146096) \div 365
        doy == doe - (365 * yoe + yoe \div 4 - yoe \div 100)
        mp  == (5 * doy + 2) \div 153
        d   == doy - (153 * mp + 2) \div 5 + 1
        m   == IF mp < 10 THEN mp + 3 ELSE mp - 9
        y   == yoe + era * 400 + (IF m <= 2 THEN 1 ELSE 0)
    IN  <<y, m, d>>

\* DateTime::from_timestamp(ts, 0).date_naive()
DateOfTimestamp(ts) == ts \div SecondsPerDay

\* Date::MIN of the time crate: -9999-01-01
DateMIN == DaysFromCivil(-9999, 1, 1)

match_month(date) == IF date.month \in 1..12 THEN date.month ELSE 1

\* a construction that clamps the day into the month instead of failing
from_calendar_date_clamped(year, month, day) ==
    [ok |-> TRUE,
     date |-> DaysFromCivil(year, month,
                            IF day < 1 THEN 1
                            ELSE IF day > DaysInMonth(year, month) THEN DaysInMonth(year, month)
                            ELSE day)]

\* Date::from_calendar_date: Err(ComponentRange) unless the day exists in the month
from_calendar_date(year, month, day) ==
    IF day >= 1 /\ day <= DaysInMonth(year, month)
    THEN [ok |-> TRUE, date |-> DaysFromCivil(year, month, day)]
    ELSE [ok |-> FALSE, date |-> 0]

now_utc(clock) == [date |-> clock \div SecondsPerDay, time |-> clock % SecondsPerDay]

\* order of two OffsetDateTime values (that of their unix timestamps)
Before(a, b) == a.date < b.date \/ (a.date = b.date /\ a.time <= b.time)

MinTime(a, b) == IF Before(a, b) THEN a ELSE b

MaxTime(a, b) == IF Before(a, b) THEN b ELSE a

\* a range that ends at the first instant of the sell date
get_range_to_midnight(n, clock) ==
    LET buy == from_calendar_date(n.buy.date.year, match_month(n.buy.date), n.buy.date.day)
        sold == from_calendar_date(n.sell.date.year, match_month(n.sell.date), n.sell.date.day)
    IN  IF ~buy.ok THEN [ok |-> FALSE, start |-> now_utc(0), end |-> now_utc(0)]
        ELSE [ok |-> TRUE,
              start |-> [date |-> buy.date, time |-> 0],
              end |-> IF n.sold
                      THEN [date |-> (IF sold.ok THEN sold.date ELSE DateMIN), time |-> 0]
                      ELSE now_utc(clock)]

\* get_range: Ok((start, end)) or Err(ComponentRange)
get_range(n, clock) ==
    LET buy == from_calendar_date(n.buy.date.year, match_month(n.buy.date), n.buy.date.day)
        sold == from_calendar_date(n.sell.date.year, match_month(n.sell.date), n.sell.date.day)
    IN  IF ~buy.ok THEN [ok |-> FALSE, start |-> now_utc(0), end |-> now_utc(0)]
        ELSE [ok |-> TRUE,
              start |-> [date |-> buy.date, time |-> 0],
              end |-> IF n.sold
                      THEN [date |-> (IF sold.ok THEN sold.date ELSE DateMIN),
                            time |-> SecondsPerDay - 1]
                      ELSE now_utc(clock)]

-----------------------------------------------------------------------------
(* The upstream market-data service *)

\* a Quote of the session that closes at 14:30 UTC of `day`
Quote(day, close, adjclose) ==
    [timestamp |-> day * SecondsPerDay + 52200,
     open |-> Num(close), high |-> Num(close), low |-> Num(adjclose), volume |-> 1000,
     close |-> Num(close), adjclose |-> Num(adjclose)]

\* a Quote of an FX pair, stamped `at` seconds into `day`
FxQuoteAt(day, at, rate) ==
    [timestamp |-> day * SecondsPerDay + at,
     open |-> Num(rate), high |-> Num(rate), low |-> Num(rate), volume |-> 0,
     close |-> Num(rate), adjclose |-> Num(rate)]

FxQuote(day, rate) == FxQuoteAt(day, 3600, rate)

D1 == DaysFromCivil(2023, 2, 1)
D2 == D1 + 1
D3 == D1 + 2
D4 == D1 + 3

\* the EUR/USD rate of the FX pair, constant over the modelled days
FxRate == 2

\* the history the service holds for each symbol: metadata currency and daily quotes
Symbols == {"T", "A", "B", "C", "E", "U", "G", "EUR=X", "GBP=X"}

History(symbol) ==
    CASE symbol = "T" -> [currency |-> "USD",
                          quotes |-> <<Quote(D1, 100, 100), Quote(D2, 110, 110), Quote(D3, 105, 105)>>]
      [] symbol = "A" -> [currency |-> "USD",
                          quotes |-> <<Quote(D1, 4, 2), Quote(D3, 3, 3)>>]
      [] symbol = "B" -> [currency |-> "USD",
                          quotes |-> <<Quote(D1, 2, 2), Quote(D2, 3, 3), Quote(D3, 4, 2), Quote(D4, 5, 5)>>]
      [] symbol = "C" -> [currency |-> "USD",
                          quotes |-> <<Quote(D1, 2, 2), Quote(D3, 6, 3)>>]
      [] symbol = "E" -> [currency |-> "EUR",
                          quotes |-> <<Quote(D1, 4, 2), Quote(D2, 3, 3), Quote(D3, 5, 5)>>]
      [] symbol = "U" -> [currency |-> "USD",
                          quotes |-> <<Quote(D1, 4 * FxRate, 2 * FxRate), Quote(D2, 3 * FxRate, 3 * FxRate),
                                       Quote(D3, 5 * FxRate, 5 * FxRate)>>]
      [] symbol = "EUR=X" -> [currency |-> "USD",
                              quotes |-> <<FxQuote(D1, FxRate), FxQuote(D2, FxRate),
                                           FxQuote(D3, FxRate), FxQuote(D4, FxRate)>>]
      [] symbol = "G" -> [currency |-> "GBP",
                          quotes |-> <<Quote(D1, 4, 2), Quote(D2, 3, 3), Quote(D3, 5, 5)>>]
      [] symbol = "GBP=X" -> [currency |-> "USD",
                              quotes |-> <<FxQuote(D1, FxRate), FxQuote(D3, FxRate + 1),
                                           FxQuoteAt(D3, 72000, FxRate + 2)>>]
      [] OTHER -> [currency |-> "USD", quotes |-> <<>>]

NoResponse == [ok |-> FALSE, currency |-> "", quotes |-> <<>>]

\* fuck_429 followed by the response's validation: the daily quotes of the days of
\* [period1, period2] that the service has published by `clock`; a request that
\* selects no day yields no usable response
fuck_429(symbol, start, end, clock) ==
    LET h == History(symbol)
        InRange(q) == /\ start.date <= DateOfTimestamp(q.timestamp)
                      /\ DateOfTimestamp(q.timestamp) <= end.date
                      /\ q.timestamp <= clock
        sel == SelectSeq(h.quotes, InRange)
    IN  IF sel = <<>> THEN NoResponse
        ELSE [ok |-> TRUE, currency |-> h.currency, quotes |-> sel]

\* format!("{}=X", currency)
FxSymbol(currency) == currency \o "=X"

\* the FX quote matched by timestamp equality instead of by calendar date
FxQuoteForSameInstant(q, currency_quotes) ==
    LET same == {j \in 1..Len(currency_quotes) : currency_quotes[j].timestamp = q.timestamp}
    IN  IF same # {} THEN currency_quotes[CHOOSE j \in same : \A j2 \in same : j <= j2]
        ELSE currency_quotes[Len(currency_quotes)]

\* yahoo_it, non-USD branch: the FX quote of the same calendar date, else the last one
FxQuoteFor(q, currency_quotes) ==
    LET same == {j \in 1..Len(currency_quotes) :
                    DateOfTimestamp(currency_quotes[j].timestamp) = DateOfTimestamp(q.timestamp)}
    IN  IF same # {} THEN currency_quotes[CHOOSE j \in same : \A j2 \in same : j <= j2]
        ELSE currency_quotes[Len(currency_quotes)]

\* a conversion that also converts the close
usd_quotes_all_prices(native, currency_quotes) ==
    [i \in 1..Len(native) |->
        [native[i] EXCEPT !.adjclose = RMul(native[i].adjclose,
                                            FxQuoteFor(native[i], currency_quotes).adjclose),
                          !.close = RMul(native[i].close,
                                         FxQuoteFor(native[i], currency_quotes).adjclose)]]

\* yahoo_it, non-USD branch: the native quotes with the adjusted close in USD
usd_quotes(native, currency_quotes) ==
    [i \in 1..Len(native) |->
        [native[i] EXCEPT !.adjclose = RMul(native[i].adjclose,
                                            FxQuoteFor(native[i], currency_quotes).adjclose)]]

-----------------------------------------------------------------------------
(* Portfolios handed to total_returns *)

TDate(y, m, d) == [year |-> y, month |-> m, day |-> d]

Transaction(date, price) == [date |-> date, price |-> Num(price)]

NoSell == Transaction(TDate(0, 0, 0), 0)

Equity(ticker, buy, sold, sell, quantity) ==
    [ticker |-> ticker, buy |-> buy, sold |-> sold, sell |-> sell, quantity |-> quantity]

ValidDates == {TDate(2023, 2, 1), TDate(2023, 2, 2), TDate(2023, 2, 3)}

\* day 31 of a 30-day month, month 13 and month 0
InvalidDates == {TDate(2023, 4, 31), TDate(2023, 13, 1), TDate(2023, 0, 31)}

BuyPrices(ticker) ==
    IF ticker = "T" THEN {100, 105} ELSE IF ticker = "U" THEN {2 * FxRate, 3 * FxRate} ELSE {2, 3}

SellPrices(ticker) ==
    IF ticker = "T" THEN {120} ELSE IF ticker = "U" THEN {6 * FxRate} ELSE {6}

Sells(ticker, dates) ==
    {[sold |-> FALSE, sell |-> NoSell]}
        \cup {[sold |-> TRUE, sell |-> Transaction(d, p)] : d \in dates, p \in SellPrices(ticker)}

Equities(tickers, buyDates, sellDates) ==
    UNION {{Equity(t, Transaction(bd, bp), s.sold, s.sell, q) :
                bd \in buyDates, bp \in BuyPrices(t), s \in Sells(t, sellDates), q \in 1..MaxQuantity} :
           t \in tickers}

SingleEquities ==
    {e \in Equities({"T", "A", "B", "E", "U"}, ValidDates \cup InvalidDates,
                    {TDate(2023, 2, 1), TDate(2023, 2, 3), TDate(2023, 4, 31)}) :
        e.quantity \in {1, MaxQuantity}}

PairEquities ==
    {e \in Equities({"A", "B", "E"}, {TDate(2023, 2, 1), TDate(2023, 2, 2), TDate(2023, 4, 31)},
                    {TDate(2023, 2, 3)}) : e.buy.price = Num(2) /\ e.quantity \in {1, MaxQuantity}}

\* positions in the GBP instrument, whose FX pair has no quote on 2023-02-02
ForeignEquities ==
    {e \in Equities({"G"}, {TDate(2023, 2, 1), TDate(2023, 2, 2)}, {TDate(2023, 2, 3)}) :
        e.quantity = 1}

\* positions in the instrument that skips 2023-02-02 and then closes above its adjusted close
SplitEquities ==
    {e \in Equities({"C"}, {TDate(2023, 2, 1)}, {TDate(2023, 2, 3)}) :
        e.buy.price = Num(2) /\ e.quantity \in {1, MaxQuantity}}

Portfolios ==
    {<<>>} \cup {<<e>> : e \in SingleEquities \cup ForeignEquities}
           \cup {p \in {<<e1, e2>> : e1 \in PairEquities \cup SplitEquities, e2 \in PairEquities} :
                    /\ p[1].ticker # p[2].ticker
                    /\ p[2].quantity = 1
                    /\ p[2].buy.date # TDate(2023, 2, 2)}

-----------------------------------------------------------------------------
(* Provider operations as the engine calls them *)

\* yahoo_it / get_quotes: the quotes with adjclose converted to USD, or an error
get_quotes(ticker, start, end, clock) ==
    LET provider == fuck_429(ticker, start, end, clock)
        fx == fuck_429(FxSymbol(provider.currency), start, end, clock)
    IN  IF ~provider.ok THEN [ok |-> FALSE, quotes |-> <<>>]
        ELSE IF provider.currency = "USD" THEN [ok |-> TRUE, quotes |-> provider.quotes]
        ELSE IF ~fx.ok THEN [ok |-> FALSE, quotes |-> <<>>]
        ELSE [ok |-> TRUE, quotes |-> usd_quotes(provider.quotes, fx.quotes)]

\* price_at_date: the close of the first quote of the FX pair over [date, date]
price_at_date(currency, date, clock) ==
    LET fx == fuck_429(FxSymbol(currency), date, date, clock)
    IN  IF fx.ok /\ fx.quotes # <<>> THEN [ok |-> TRUE, rate |-> fx.quotes[1].close]
        ELSE [ok |-> FALSE, rate |-> Num(0)]

\* check_currency: 1.0 unless the instrument's metadata names a non-USD currency
check_currency(ticker, date, clock) ==
    LET s == fuck_429(ticker, now_utc(clock), now_utc(clock), clock)
    IN  IF s.ok /\ s.currency # "USD" THEN price_at_date(s.currency, date, clock)
        ELSE [ok |-> TRUE, rate |-> Num(1)]

-----------------------------------------------------------------------------
(* total_returns: the per-equity fold over its quotes *)

Position(old_price, price, quantity) ==
    [old_price |-> old_price, price |-> price, quantity |-> quantity]

\* every_date.iter().position(|&d| d == date): None when the date is absent
IndexOf(calendar, date) == Cardinality({d \in calendar : d < date})

\* every_date.iter().nth(index)
NthDate(calendar, index) == CHOOSE d \in calendar : IndexOf(calendar, d) = index

\* returns.insert(date, vec![position]): the positions of earlier equities are lost
PushOverwrite(rets, date, position) ==
    [d \in DOMAIN rets \cup {date} |-> IF d = date THEN <<position>> ELSE rets[d]]

\* returns.entry(date).or_insert_with(Vec::new).push(position)
Push(rets, date, position) ==
    [d \in DOMAIN rets \cup {date} |->
        IF d = date
        THEN Append(IF d \in DOMAIN rets THEN rets[d] ELSE <<>>, position)
        ELSE rets[d]]

\* a synthesized position that moves to the following quote's adjusted close
BackfillPositionDrift(old_price, m, quantity) ==
    Position(RDiv(RMul(old_price, m.close), m.adjclose), m.adjclose, quantity)

\* the position synthesized for every calendar date skipped between two quotes
BackfillPosition(old_price, m, quantity) ==
    Position(RDiv(RMul(old_price, m.close), m.adjclose),
             RDiv(RMul(old_price, m.close), m.adjclose),
             quantity)

\* a loop over the skipped dates that pushes nothing
BackfillNothing(rets, calendar, from, to, position) == rets

RECURSIVE Backfill(_, _, _, _, _)
Backfill(rets, calendar, from, to, position) ==
    IF from >= to THEN rets
    ELSE Backfill(Push(rets, NthDate(calendar, from), position), calendar, from + 1, to, position)

\* positions without the close / adjusted close rescaling of the boundary days
QuotePositionUnscaled(n, m, i, len, old_price, start_adj, end_adj) ==
    IF i = len - 1
    THEN Position(old_price, IF n.sold THEN RMul(n.sell.price, end_adj) ELSE m.adjclose,
                  n.quantity)
    ELSE IF i = 0
    THEN Position(old_price, RMul(m.close, start_adj), n.quantity)
    ELSE Position(old_price, m.adjclose, n.quantity)

\* the position pushed for quote m, the i-th (0-based) of len quotes
QuotePosition(n, m, i, len, old_price, start_adj, end_adj) ==
    IF i = len - 1
    THEN Position(RDiv(RMul(old_price, m.close), m.adjclose),
                  IF n.sold
                  THEN RDiv(RMul(RMul(n.sell.price, end_adj), m.close), m.adjclose)
                  ELSE m.adjclose,
                  n.quantity)
    ELSE IF i = 0
    THEN Position(RDiv(RMul(old_price, m.close), m.adjclose),
                  RDiv(RMul(RMul(m.close, start_adj), m.close), m.adjclose),
                  n.quantity)
    ELSE Position(old_price, m.adjclose, n.quantity)

\* a carry that is the adjusted close on every day
CarryAdjclose(m, i, len, end_adj) == m.adjclose

\* the value carried into the next quote's old_price
Carry(m, i, len, end_adj) ==
    IF i = len - 2 THEN RMul(m.close, end_adj) ELSE m.adjclose

\* one iteration of `for (i, m) in quotes.iter().enumerate()`; acc.panic names the
\* panic that ended the loop, "" while it runs
QuoteStep(acc, n, qs, i, calendar, start_adj, end_adj, checks) ==
    LET m == qs[i + 1]
        len == Len(qs)
        date == DateOfTimestamp(m.timestamp)
        previous_index == IndexOf(calendar, acc.previous_date)
        current_index == IndexOf(calendar, date)
        filled == IF i > 0 /\ current_index - previous_index > 1
                  THEN Backfill(acc.returns, calendar, previous_index + 1, current_index,
                                BackfillPosition(acc.old_price, m, n.quantity))
                  ELSE acc.returns
        pushed == Push(filled, date,
                       QuotePosition(n, m, i, len, acc.old_price, start_adj, end_adj))
    IN  IF i > 0 /\ (acc.previous_date \notin calendar \/ date \notin calendar)
        THEN [acc EXCEPT !.panic = "unwrap on None"]
        ELSE IF i > 0 /\ current_index < previous_index /\ checks
        THEN [acc EXCEPT !.panic = "subtract with overflow"]
        ELSE IF len < 2 /\ checks
        THEN [acc EXCEPT !.returns = pushed, !.panic = "subtract with overflow"]
        ELSE [returns |-> pushed,
              old_price |-> Carry(m, i, len, end_adj),
              previous_date |-> date,
              panic |-> ""]

RECURSIVE QuoteLoop(_, _, _, _, _, _, _, _)
QuoteLoop(acc, n, qs, i, calendar, start_adj, end_adj, checks) ==
    IF i >= Len(qs) \/ acc.panic # "" THEN acc
    ELSE QuoteLoop(QuoteStep(acc, n, qs, i, calendar, start_adj, end_adj, checks),
                   n, qs, i + 1, calendar, start_adj, end_adj, checks)

\* NaiveDate::MIN, the initial previous_date; it is never looked up
NaiveDateMIN == DaysFromCivil(-262143, 1, 1)

\* the body of `for n in item.portfolio.iter()` after its fetches
EquityFold(rets, n, qs, calendar, start_adj, end_adj, checks) ==
    QuoteLoop([returns |-> rets,
               old_price |-> RMul(n.buy.price, start_adj),
               previous_date |-> NaiveDateMIN,
               panic |-> ""],
              n, qs, 0, calendar, start_adj, end_adj, checks)

-----------------------------------------------------------------------------
(* total_returns: per-date aggregation and the cumulative fold *)

\* the capital summed without the quantities
RECURSIVE CapitalUnweighted(_, _)
CapitalUnweighted(positions, j) ==
    IF j = 0 THEN Num(0)
    ELSE RAdd(CapitalUnweighted(positions, j - 1), positions[j].old_price)

RECURSIVE Capital(_, _)
Capital(positions, j) ==
    IF j = 0 THEN Num(0)
    ELSE RAdd(Capital(positions, j - 1),
              RMul(positions[j].old_price, Num(positions[j].quantity)))

RECURSIVE RateSum(_, _, _)
RateSum(positions, j, cap) ==
    IF j = 0 THEN Num(0)
    ELSE RAdd(RateSum(positions, j - 1, cap),
              RDiv(RMul(positions[j].price, Num(positions[j].quantity)), cap))

\* the first map closure: the day's aggregate growth
DayRate(positions) ==
    RateSum(positions, Len(positions), Capital(positions, Len(positions)))

MaxOf(S) == CHOOSE x \in S : \A y \in S : y <= x

\* `cumulative = rate`: each date reports its own rate, nothing is chained
CumulativeUnchained(rets, dates) ==
    IF dates = {} THEN Num(1) ELSE RateSum(rets[MaxOf(dates)], Len(rets[MaxOf(dates)]),
                                           Capital(rets[MaxOf(dates)], Len(rets[MaxOf(dates)])))

\* the running `cumulative *= rate` after the dates of `dates`, taken in ascending order
RECURSIVE Cumulative(_, _)
Cumulative(rets, dates) ==
    IF dates = {} THEN Num(1)
    ELSE RMul(Cumulative(rets, dates \ {MaxOf(dates)}), DayRate(rets[MaxOf(dates)]))

\* the percentage without the base subtracted
PercentageOfTotal(cumulative) == RMul(cumulative, Num(100))

Percentage(cumulative) == RMul(RSub(cumulative, Num(1)), Num(100))

\* the collected BTreeMap<String, f64>
Collect(rets) ==
    [s \in {DateToString(d) : d \in DOMAIN rets} |->
        LET date == CHOOSE d \in DOMAIN rets : DateToString(d) = s
        IN  Percentage(Cumulative(rets, {d \in DOMAIN rets : d <= date}))]

-----------------------------------------------------------------------------
(* total_returns as a state machine: one step per provider request *)

NoReturns == [d \in {} |-> <<>>]

NoResult == [s \in {} |-> Num(0)]

Running == [kind |-> "running", error |-> "", result |-> NoResult]

Ok(result) == [kind |-> "ok", error |-> "", result |-> result]

\* an error that carries the percentages of the positions built so far
ErrWithPartialResult(error) == [kind |-> "err", error |-> error, result |-> Collect(returns)]

Err(error) == [kind |-> "err", error |-> error, result |-> NoResult]

Panic(message) == [kind |-> "panic", error |-> message, result |-> NoResult]

NoTime == [date |-> 0, time |-> 0]

NoRange == [start |-> NoTime, end |-> NoTime]

Request(symbol, start, end) == [symbol |-> symbol, start |-> start, end |-> end]

\* what came back for a request: `step` is the step of total_returns that issued it
\* ("calendar", "start", "end", "own"), `fx` tells the FX pair's request from the
\* instrument's, `equity` is the index of the equity it was issued for
Answer(step, fx, equity, ok, response) ==
    [step |-> step, fx |-> fx, equity |-> equity, ok |-> ok,
     currency |-> IF ok THEN response.currency ELSE "",
     quotes |-> IF ok THEN response.quotes ELSE <<>>]

\* no call of YResponse::quotes() / YResponse::metadata() has returned
NotCalled == [kind |-> "none"]

NoEnvelope == [result |-> <<>>]

\* the number of simulations options::expected runs (10000 in the source)
Simulations == 3

\* no Options: options::expected is not running
NoOptions == [form |-> "", strike |-> 0, rfr |-> 0, maturity |-> 0]

NoWorkers == [w \in 1..Simulations |-> "unspawned"]

NotRunning == [pc |-> "idle", result |-> NotCalled]

\* the instant the clock shows when the invocation starts: 21:00 UTC of the third day
StartOfRun == D3 * SecondsPerDay + 75600

Init ==
    /\ portfolio \in Portfolios
    /\ overflow_checks \in BOOLEAN
    /\ now = StartOfRun
    /\ ticks = 0
    /\ pc = "find_dates"
    /\ k = 1
    /\ range = NoRange
    /\ historical_data = <<>>
    /\ every_date = {}
    /\ own = NoRange
    /\ start_currency_adjustment = Num(1)
    /\ end_currency_adjustment = Num(1)
    /\ pending = NoResponse
    /\ quotes = <<>>
    /\ own_quotes = <<>>
    /\ returns = NoReturns
    /\ fetches = <<>>
    /\ faults = 0
    /\ answers = <<>>
    /\ outcome = Running
    /\ y_response = NoEnvelope
    /\ y_quotes = NotCalled
    /\ y_metadata = NotCalled
    /\ values = NoOptions
    /\ workers = NoWorkers
    /\ channel = <<>>
    /\ v = <<>>
    /\ expected = NotRunning

\* a request may fail in transport; at most MaxFaults do so in one invocation
Faults(failed) == IF failed < MaxFaults THEN BOOLEAN ELSE {FALSE}

inputs == <<portfolio, overflow_checks>>

parsing == <<y_response, y_quotes, y_metadata>>

sampling == <<values, workers, channel, v, expected>>

clock == <<now, ticks>>

calendar_state == <<range, historical_data, every_date>>

equity_state == <<own, start_currency_adjustment, end_currency_adjustment, quotes, own_quotes,
                  returns>>

\* `return Err(..)` / a panic: the invocation ends
Return(value) ==
    /\ outcome' = value
    /\ pc' = "done"

\* the fold of find_dates over the ranges: (earliest start, latest end)
GlobalRange(ranges) ==
    LET idx == 1..Len(ranges)
        s == CHOOSE i \in idx : \A j \in idx : Before(ranges[i].start, ranges[j].start)
        e == CHOOSE i \in idx : \A j \in idx : Before(ranges[j].end, ranges[i].end)
    IN  [start |-> ranges[s].start, end |-> ranges[e].end]

\* a calendar of the dates of the first series alone
CalendarOfFirstSeries(data) ==
    {DateOfTimestamp(data[1][j].timestamp) : j \in 1..Len(data[1])}

\* the calendar of find_dates: the dates of every timestamp of every series
CalendarOf(data) ==
    {DateOfTimestamp(data[i][j].timestamp) : <<i, j>> \in
        UNION {{<<i2, j2>> : j2 \in 1..Len(data[i2])} : i2 \in 1..Len(data)}}

\* find_dates, up to its first request: the ranges of all equities and their fold
FindDates ==
    /\ pc = "find_dates"
    /\ LET ranges == [i \in 1..Len(portfolio) |-> get_range(portfolio[i], now)]
       IN  IF \E i \in 1..Len(portfolio) : ~ranges[i].ok
           THEN Return(Err("ComponentRange")) /\ UNCHANGED range
           ELSE IF Len(portfolio) = 0
           THEN Return(Panic("index out of bounds")) /\ UNCHANGED range
           ELSE /\ range' = GlobalRange(ranges)
                /\ pc' = "calendar_quotes"
                /\ UNCHANGED outcome
    /\ UNCHANGED <<inputs, parsing, sampling, clock, k, historical_data, every_date, equity_state, pending,
                   fetches, faults, answers>>

\* a calendar built from the first series alone, the equity then being processed at once
StoreCalendarQuotesInterleaved(qs) ==
    /\ historical_data' = Append(historical_data, qs)
    /\ every_date' = CalendarOf(Append(historical_data, qs))
    /\ pc' = "equity_range"
    /\ k' = k

\* find_dates: historical_data.push(..) and, after the last equity, the calendar
StoreCalendarQuotes(qs) ==
    /\ historical_data' = Append(historical_data, qs)
    /\ IF k = Len(portfolio)
       THEN /\ every_date' = CalendarOf(Append(historical_data, qs))
            /\ pc' = "equity_range"
            /\ k' = 1
       ELSE /\ pc' = "calendar_quotes"
            /\ k' = k + 1
            /\ UNCHANGED every_date

\* find_dates: get_quotes(&n.ticker, &start, &end), the instrument's request
CalendarQuotes ==
    /\ pc = "calendar_quotes"
    /\ fetches' = Append(fetches, Request(portfolio[k].ticker, range.start, range.end))
    /\ \E fault \in Faults(faults) :
        LET provider == fuck_429(portfolio[k].ticker, range.start, range.end, now)
        IN  /\ faults' = faults + (IF fault THEN 1 ELSE 0)
            /\ answers' = Append(answers, Answer("calendar", FALSE, k, ~fault /\ provider.ok, provider))
            /\ IF fault \/ ~provider.ok
               THEN /\ Return(Err("ProviderError"))
                    /\ UNCHANGED <<k, historical_data, every_date, pending>>
               ELSE IF provider.currency = "USD"
               THEN /\ StoreCalendarQuotes(provider.quotes)
                    /\ UNCHANGED <<pending, outcome>>
               ELSE /\ pending' = provider
                    /\ pc' = "calendar_fx"
                    /\ UNCHANGED <<k, historical_data, every_date, outcome>>
    /\ UNCHANGED <<inputs, parsing, sampling, clock, range, equity_state>>

\* find_dates: get_quotes, the FX pair's request of a non-USD instrument
CalendarFx ==
    /\ pc = "calendar_fx"
    /\ fetches' = Append(fetches, Request(FxSymbol(pending.currency), range.start, range.end))
    /\ \E fault \in Faults(faults) :
        LET fx == fuck_429(FxSymbol(pending.currency), range.start, range.end, now)
        IN  /\ faults' = faults + (IF fault THEN 1 ELSE 0)
            /\ answers' = Append(answers, Answer("calendar", TRUE, k, ~fault /\ fx.ok, fx))
            /\ IF fault \/ ~fx.ok
               THEN /\ Return(Err("ProviderError"))
                    /\ UNCHANGED <<k, historical_data, every_date>>
               ELSE /\ StoreCalendarQuotes(usd_quotes(pending.quotes, fx.quotes))
                    /\ UNCHANGED outcome
    /\ pending' = NoResponse
    /\ UNCHANGED <<inputs, parsing, sampling, clock, range, equity_state>>

\* total_returns: `let (start, end) = get_range(n)?` of the current equity
EquityRange ==
    /\ pc = "equity_range"
    /\ LET r == get_range(portfolio[k], now)
       IN  IF ~r.ok
           THEN Return(Err("ComponentRange")) /\ UNCHANGED own
           ELSE /\ own' = [start |-> r.start, end |-> r.end]
                /\ pc' = "start_rate"
                /\ UNCHANGED outcome
    /\ UNCHANGED <<inputs, parsing, sampling, clock, k, calendar_state, start_currency_adjustment,
                   end_currency_adjustment, quotes, own_quotes, returns, pending, fetches,
                   faults, answers>>

\* `let start_currency_adjustment = ..` / `let end_currency_adjustment = ..`
SetRate(which, rate) ==
    IF which = "start"
    THEN start_currency_adjustment' = rate /\ UNCHANGED end_currency_adjustment
    ELSE end_currency_adjustment' = rate /\ UNCHANGED start_currency_adjustment

\* check_currency: the metadata request over [now, now]; sets the rate when no FX
\* request follows, else goes to `fx_pc`
CurrencyMeta(at_pc, fx_pc, next_pc, which) ==
    /\ pc = at_pc
    /\ fetches' = Append(fetches, Request(portfolio[k].ticker, now_utc(now), now_utc(now)))
    /\ \E fault \in Faults(faults) :
        LET s == fuck_429(portfolio[k].ticker, now_utc(now), now_utc(now), now)
        IN  /\ faults' = faults + (IF fault THEN 1 ELSE 0)
            /\ answers' = Append(answers, Answer(which, FALSE, k, ~fault /\ s.ok, s))
            /\ IF ~fault /\ s.ok /\ s.currency # "USD"
               THEN /\ pending' = s
                    /\ pc' = fx_pc
                    /\ SetRate(which, Num(1))
               ELSE /\ SetRate(which, Num(1))
                    /\ pc' = next_pc
                    /\ UNCHANGED pending
    /\ UNCHANGED <<inputs, parsing, sampling, clock, k, calendar_state, own, quotes, own_quotes, returns,
                   outcome>>

\* a price_at_date whose failure falls back to 1.0 like the metadata request's
CurrencyFxFallback(at_pc, next_pc, date, which) ==
    /\ pc = at_pc
    /\ fetches' = Append(fetches, Request(FxSymbol(pending.currency), date, date))
    /\ \E fault \in Faults(faults) :
        LET fx == fuck_429(FxSymbol(pending.currency), date, date, now)
        IN  /\ faults' = faults + (IF fault THEN 1 ELSE 0)
            /\ answers' = Append(answers, Answer(which, TRUE, k, ~fault /\ fx.ok, fx))
            /\ SetRate(which, IF fault \/ ~fx.ok \/ fx.quotes = <<>> THEN Num(1)
                               ELSE fx.quotes[1].close)
            /\ pc' = next_pc
            /\ UNCHANGED outcome
    /\ pending' = NoResponse
    /\ UNCHANGED <<inputs, parsing, sampling, clock, k, calendar_state, own, quotes, own_quotes, returns>>

\* check_currency: price_at_date, the FX pair's request over [date, date]
CurrencyFx(at_pc, next_pc, date, which) ==
    /\ pc = at_pc
    /\ fetches' = Append(fetches, Request(FxSymbol(pending.currency), date, date))
    /\ \E fault \in Faults(faults) :
        LET fx == fuck_429(FxSymbol(pending.currency), date, date, now)
        IN  /\ faults' = faults + (IF fault THEN 1 ELSE 0)
            /\ answers' = Append(answers, Answer(which, TRUE, k, ~fault /\ fx.ok, fx))
            /\ IF fault \/ ~fx.ok \/ fx.quotes = <<>>
               THEN Return(Err("ProviderError")) /\ SetRate(which, Num(1))
               ELSE /\ SetRate(which, fx.quotes[1].close)
                    /\ pc' = next_pc
                    /\ UNCHANGED outcome
    /\ pending' = NoResponse
    /\ UNCHANGED <<inputs, parsing, sampling, clock, k, calendar_state, own, quotes, own_quotes, returns>>

\* check_currency(&n.ticker, &start)
StartRateMeta == CurrencyMeta("start_rate", "start_rate_fx", "end_rate", "start")

StartRateFx == CurrencyFx("start_rate_fx", "end_rate", own.start, "start")

\* check_currency(&n.ticker, &end)
EndRateMeta == CurrencyMeta("end_rate", "end_rate_fx", "equity_quotes", "end")

EndRateFx == CurrencyFx("end_rate_fx", "equity_quotes", own.end, "end")

\* total_returns: get_quotes(&n.ticker, &start, &end), the instrument's request
EquityQuotes ==
    /\ pc = "equity_quotes"
    /\ fetches' = Append(fetches, Request(portfolio[k].ticker, own.start, own.end))
    /\ \E fault \in Faults(faults) :
        LET provider == fuck_429(portfolio[k].ticker, own.start, own.end, now)
        IN  /\ faults' = faults + (IF fault THEN 1 ELSE 0)
            /\ answers' = Append(answers, Answer("own", FALSE, k, ~fault /\ provider.ok, provider))
            /\ IF fault \/ ~provider.ok
               THEN /\ Return(Err("ProviderError"))
                    /\ UNCHANGED <<quotes, pending>>
               ELSE IF provider.currency = "USD"
               THEN /\ quotes' = provider.quotes
                    /\ pc' = "fold"
                    /\ UNCHANGED <<pending, outcome>>
               ELSE /\ pending' = provider
                    /\ pc' = "equity_fx"
                    /\ UNCHANGED <<quotes, outcome>>
    /\ UNCHANGED <<inputs, parsing, sampling, clock, k, calendar_state, own, start_currency_adjustment,
                   end_currency_adjustment, own_quotes, returns>>

\* total_returns: get_quotes, the FX pair's request of a non-USD instrument
EquityFx ==
    /\ pc = "equity_fx"
    /\ fetches' = Append(fetches, Request(FxSymbol(pending.currency), own.start, own.end))
    /\ \E fault \in Faults(faults) :
        LET fx == fuck_429(FxSymbol(pending.currency), own.start, own.end, now)
        IN  /\ faults' = faults + (IF fault THEN 1 ELSE 0)
            /\ answers' = Append(answers, Answer("own", TRUE, k, ~fault /\ fx.ok, fx))
            /\ IF fault \/ ~fx.ok
               THEN /\ Return(Err("ProviderError"))
                    /\ UNCHANGED quotes
               ELSE /\ quotes' = usd_quotes(pending.quotes, fx.quotes)
                    /\ pc' = "fold"
                    /\ UNCHANGED outcome
    /\ pending' = NoResponse
    /\ UNCHANGED <<inputs, parsing, sampling, clock, k, calendar_state, own, start_currency_adjustment,
                   end_currency_adjustment, own_quotes, returns>>

\* total_returns: the loop over the equity's quotes
FoldQuotes ==
    /\ pc = "fold"
    /\ LET acc == EquityFold(returns, portfolio[k], quotes, every_date,
                             start_currency_adjustment, end_currency_adjustment,
                             overflow_checks)
       IN  /\ returns' = acc.returns
           /\ own_quotes' = Append(own_quotes, quotes)
           /\ IF acc.panic # ""
              THEN Return(Panic(acc.panic)) /\ UNCHANGED k
              ELSE IF k = Len(portfolio)
              THEN pc' = "collect" /\ UNCHANGED <<k, outcome>>
              ELSE pc' = "equity_range" /\ k' = k + 1 /\ UNCHANGED outcome
    /\ UNCHANGED <<inputs, parsing, sampling, clock, calendar_state, own, start_currency_adjustment,
                   end_currency_adjustment, quotes, pending, fetches, faults, answers>>

\* total_returns: the aggregation and the cumulative fold, `Ok(..collect())`
CollectReturns ==
    /\ pc = "collect"
    /\ Return(Ok(Collect(returns)))
    /\ UNCHANGED <<inputs, parsing, sampling, clock, k, calendar_state, equity_state, pending, fetches,
                   faults, answers>>

\* time passes while the invocation awaits: the clock advances by a day and the
\* service publishes that day's quotes
Tick ==
    /\ pc # "done"
    /\ ticks < MaxTicks
    /\ now' = now + SecondsPerDay
    /\ ticks' = ticks + 1
    /\ UNCHANGED <<inputs, parsing, sampling, pc, k, calendar_state, equity_state, pending, fetches, faults, answers,
                   outcome>>

Next ==
    \/ FindDates
    \/ CalendarQuotes
    \/ CalendarFx
    \/ EquityRange
    \/ StartRateMeta
    \/ StartRateFx
    \/ EndRateMeta
    \/ EndRateFx
    \/ EquityQuotes
    \/ EquityFx
    \/ FoldQuotes
    \/ CollectReturns
    \/ Tick

Spec == Init /\ [][Next]_vars

-----------------------------------------------------------------------------
(* YResponse: validation and projection of a deserialized response.  An      *)
(* Option is a sequence of length 0 (None) or 1 (Some), a Vec a sequence.     *)

MaxLen == 2

None == <<>>

Some(value) == <<value>>

YOk(value) == [kind |-> "ok", value |-> value]

YErr(error) == [kind |-> "err", error |-> error]

YPanic(message) == [kind |-> "panic", message |-> message]

\* a validation that does not look at the adjusted closes
check_block_without_adjclose(stock) ==
    LET n == Len(stock.timestamp)
        quote == stock.indicators.quote[1]
    IN  IF n = 0 THEN YErr("EmptyDataSet")
        ELSE IF stock.indicators.quote = <<>> THEN YPanic("index out of bounds")
        ELSE IF \/ Len(quote.open) # n \/ Len(quote.high) # n \/ Len(quote.low) # n
                \/ Len(quote.volume) # n \/ Len(quote.close) # n
        THEN YErr("DataInconsistency")
        ELSE YOk(<<>>)

\* the body of check_consistency's loop for one block
check_block(stock) ==
    LET n == Len(stock.timestamp)
        quote == stock.indicators.quote[1]
        adjclose == stock.indicators.adjclose[1]
    IN  IF n = 0 THEN YErr("EmptyDataSet")
        ELSE IF stock.indicators.quote = <<>> THEN YPanic("index out of bounds")
        ELSE IF \/ Len(quote.open) # n \/ Len(quote.high) # n \/ Len(quote.low) # n
                \/ Len(quote.volume) # n \/ Len(quote.close) # n
        THEN YErr("DataInconsistency")
        ELSE IF stock.indicators.adjclose = None THEN YOk(<<>>)
        ELSE IF adjclose = <<>> THEN YPanic("index out of bounds")
        ELSE IF Len(adjclose[1].adjclose) # n THEN YErr("DataInconsistency")
        ELSE YOk(<<>>)

\* YResponse::check_consistency: the first block that is not consistent decides
RECURSIVE check_consistency_from(_, _)
check_consistency_from(self, b) ==
    IF b > Len(self.result) THEN YOk(<<>>)
    ELSE IF check_block(self.result[b]).kind # "ok" THEN check_block(self.result[b])
    ELSE check_consistency_from(self, b + 1)

check_consistency(self) == check_consistency_from(self, 1)

unwrap_or(option, default) == IF option = None THEN default ELSE option[1]

\* a projection that puts 0.0 where the close is not set
get_ith_quote_substituting(indicators, timestamp, i) ==
    LET quote == indicators.quote[1]
        column == indicators.adjclose[1][1].adjclose
    IN  IF indicators.adjclose # None /\ indicators.adjclose[1] = <<>>
        THEN YPanic("index out of bounds")
        ELSE IF indicators.adjclose # None /\ i > Len(column) THEN YPanic("index out of bounds")
        ELSE IF indicators.quote = <<>> THEN YPanic("index out of bounds")
        ELSE YOk([timestamp |-> timestamp,
                  open |-> unwrap_or(quote.open[i], Num(0)),
                  high |-> unwrap_or(quote.high[i], Num(0)),
                  low |-> unwrap_or(quote.low[i], Num(0)),
                  volume |-> unwrap_or(quote.volume[i], 0),
                  close |-> unwrap_or(quote.close[i], Num(0)),
                  adjclose |-> IF indicators.adjclose = None THEN Num(0)
                               ELSE unwrap_or(column[i], Num(0))])

\* QuoteBlock::get_ith_quote, i counted from 1
get_ith_quote(indicators, timestamp, i) ==
    LET quote == indicators.quote[1]
        column == indicators.adjclose[1][1].adjclose
    IN  IF indicators.adjclose # None /\ indicators.adjclose[1] = <<>>
        THEN YPanic("index out of bounds")
        ELSE IF indicators.adjclose # None /\ i > Len(column) THEN YPanic("index out of bounds")
        ELSE IF indicators.quote = <<>> THEN YPanic("index out of bounds")
        ELSE IF quote.close[i] = None THEN YErr("EmptyDataSet")
        ELSE YOk([timestamp |-> timestamp,
                  open |-> unwrap_or(quote.open[i], Num(0)),
                  high |-> unwrap_or(quote.high[i], Num(0)),
                  low |-> unwrap_or(quote.low[i], Num(0)),
                  volume |-> unwrap_or(quote.volume[i], 0),
                  close |-> quote.close[i][1],
                  adjclose |-> IF indicators.adjclose = None THEN Num(0)
                               ELSE unwrap_or(column[i], Num(0))])

\* the loop `for i in 0..n` of YResponse::quotes
RECURSIVE quotes_from(_, _, _)
quotes_from(stock, i, acc) ==
    IF i > Len(stock.timestamp) THEN YOk(acc)
    ELSE LET quote == get_ith_quote(stock.indicators, stock.timestamp[i], i)
         IN  IF quote.kind = "panic" THEN quote
             ELSE quotes_from(stock, i + 1,
                              IF quote.kind = "ok" THEN Append(acc, quote.value) ELSE acc)

\* YResponse::quotes
YResponse_quotes(self) ==
    IF check_consistency(self).kind # "ok" THEN check_consistency(self)
    ELSE IF self.result = <<>> THEN YPanic("index out of bounds")
    ELSE quotes_from(self.result[1], 1, <<>>)

\* YResponse::metadata
YResponse_metadata(self) ==
    IF check_consistency(self).kind # "ok" THEN check_consistency(self)
    ELSE IF self.result = <<>> THEN YPanic("index out of bounds")
    ELSE YOk(self.result[1].meta)

YMetaData(currency) ==
    [currency |-> currency, symbol |-> "T", exchange_name |-> "NMS", instrument_type |-> "EQUITY"]

\* the timestamps of n consecutive sessions
Timestamps(n) == [i \in 1..n |-> (D1 + i - 1) * SecondsPerDay + 52200]

\* a Vec<Option<f64>> of n prices, null at the indices of `nulls`
Prices(n, nulls, base) == [i \in 1..n |-> IF i \in nulls THEN None ELSE Some(Num(base + i))]

\* a Vec<Option<u64>>
Volumes(n, nulls) == [i \in 1..n |-> IF i \in nulls THEN None ELSE Some(1000 * i)]

\* the arrays of a block other than close
Columns == {"open", "high", "low", "volume", "adjclose"}

\* the null indices of array `column` when the arrays of `missing` are null at index `at`
Nulls(column, missing, at) == IF column \in missing THEN {at} ELSE {}

YQuoteBlock(currency, timestamp, quote, adjclose) ==
    [meta |-> YMetaData(currency), timestamp |-> timestamp,
     indicators |-> [quote |-> quote, adjclose |-> adjclose]]

QuoteList(open, high, low, close, volume) ==
    [open |-> open, high |-> high, low |-> low, close |-> close, volume |-> volume]

AdjClose(adjclose) == [adjclose |-> adjclose]

\* blocks whose arrays all have the length n of the timestamps; any closes may be null,
\* and any of the other arrays at one index
ConsistentBlocks ==
    UNION {{YQuoteBlock("USD", Timestamps(n),
                        <<QuoteList(Prices(n, Nulls("open", missing, at), 10),
                                    Prices(n, Nulls("high", missing, at), 20),
                                    Prices(n, Nulls("low", missing, at), 30),
                                    Prices(n, c, 40),
                                    Volumes(n, Nulls("volume", missing, at)))>>,
                        IF present
                        THEN Some(<<AdjClose(Prices(n, Nulls("adjclose", missing, at), 50))>>)
                        ELSE None) :
                missing \in SUBSET Columns, at \in 1..n, c \in SUBSET (1..n),
                present \in BOOLEAN} :
           n \in 1..MaxLen}

\* the length of array `column` in a block of n timestamps whose array `odd` has x entries
LengthOf(column, odd, n, x) == IF column = odd THEN x ELSE n

\* blocks without nulls in which one array (or none, when x = n) has a length x of its
\* own, with and without adjusted closes
RaggedBlocks ==
    {YQuoteBlock("EUR", Timestamps(n),
                 <<QuoteList(Prices(LengthOf("open", odd, n, x), {}, 10),
                             Prices(LengthOf("high", odd, n, x), {}, 20),
                             Prices(LengthOf("low", odd, n, x), {}, 30),
                             Prices(LengthOf("close", odd, n, x), {}, 40),
                             Volumes(LengthOf("volume", odd, n, x), {}))>>,
                 IF absent /\ odd # "adjclose" THEN None
                 ELSE Some(<<AdjClose(Prices(LengthOf("adjclose", odd, n, x), {}, 50))>>)) :
        n \in 0..MaxLen, x \in 0..MaxLen, absent \in BOOLEAN,
        odd \in {"open", "high", "low", "close", "volume", "adjclose"}}

\* blocks without a quote list, or with an empty list of adjusted-close arrays
HollowBlocks ==
    UNION {{YQuoteBlock("USD", Timestamps(n), <<>>, None),
            YQuoteBlock("USD", Timestamps(n),
                        <<QuoteList(Prices(n, {}, 10), Prices(n, {}, 20), Prices(n, {}, 30),
                                    Prices(n, {}, 40), Volumes(n, {}))>>,
                        Some(<<>>))} :
           n \in 0..MaxLen}

YResponses ==
    {NoEnvelope} \cup {[result |-> <<b>>] : b \in ConsistentBlocks \cup RaggedBlocks \cup HollowBlocks}

engine == <<portfolio, overflow_checks, now, ticks, pc, k, range, historical_data, every_date,
            own, start_currency_adjustment, end_currency_adjustment, pending, quotes,
            own_quotes, returns, fetches, faults, answers, outcome>>

ResponseInit ==
    /\ y_response \in YResponses
    /\ y_quotes = NotCalled
    /\ y_metadata = NotCalled
    /\ portfolio = <<>>
    /\ overflow_checks = TRUE
    /\ now = StartOfRun
    /\ ticks = 0
    /\ pc = "done"
    /\ k = 1
    /\ range = NoRange
    /\ historical_data = <<>>
    /\ every_date = {}
    /\ own = NoRange
    /\ start_currency_adjustment = Num(1)
    /\ end_currency_adjustment = Num(1)
    /\ pending = NoResponse
    /\ quotes = <<>>
    /\ own_quotes = <<>>
    /\ returns = NoReturns
    /\ fetches = <<>>
    /\ faults = 0
    /\ answers = <<>>
    /\ outcome = Running
    /\ values = NoOptions
    /\ workers = NoWorkers
    /\ channel = <<>>
    /\ v = <<>>
    /\ expected = NotRunning

\* provider.quotes()
CallQuotes ==
    /\ y_quotes = NotCalled
    /\ y_quotes' = YResponse_quotes(y_response)
    /\ UNCHANGED <<engine, sampling, y_response, y_metadata>>

\* provider.metadata()
CallMetadata ==
    /\ y_metadata = NotCalled
    /\ y_metadata' = YResponse_metadata(y_response)
    /\ UNCHANGED <<engine, sampling, y_response, y_quotes>>

ResponseNext ==
    \/ CallQuotes
    \/ CallMetadata

ResponseSpec == ResponseInit /\ [][ResponseNext]_vars

-----------------------------------------------------------------------------
(* options::expected: the Monte-Carlo valuation.  The price of the underlying  *)
(* at maturity that a thread samples is random; it is drawn here from a small  *)
(* set of integers on both sides of the strike.                                *)

\* the fields of Options that the valuation of a sample reads
Options(form) == [form |-> form, strike |-> 2, rfr |-> 1, maturity |-> 1]

\* values.underlying * (..).exp(): what a thread may compute
Samples == {1, 3}

\* the live Sender handles: the caller's tx, and the clone moved into every thread
\* that has not ended
Senders ==
    (IF expected.pc \in {"spawn", "recv", "average"} THEN 1 ELSE 0)
        + Cardinality({w \in 1..Simulations : workers[w] = "running"})

\* the return of one iteration, discounted to the present
Payoff(x) ==
    LET discount == Num((1 + values.rfr) ^ values.maturity)
    IN  IF values.form = "Call"
        THEN (IF x <= values.strike THEN Num(0) ELSE RDiv(Num(x - values.strike), discount))
        ELSE (IF x >= values.strike THEN Num(0) ELSE RDiv(Num(values.strike - x), discount))

\* returns.iter().sum()
RECURSIVE SumOfReturns(_)
SumOfReturns(samples) ==
    IF samples = <<>> THEN Num(0)
    ELSE RAdd(Payoff(Head(samples)), SumOfReturns(Tail(samples)))

Average(samples) == RDiv(SumOfReturns(samples), Num(Len(samples)))

ExpectedInit ==
    /\ values \in {Options("Call"), Options("Put")}
    /\ workers = NoWorkers
    /\ channel = <<>>
    /\ v = <<>>
    /\ expected = [pc |-> "spawn", result |-> NotCalled]
    /\ y_response = NoEnvelope
    /\ y_quotes = NotCalled
    /\ y_metadata = NotCalled
    /\ portfolio = <<>>
    /\ overflow_checks = TRUE
    /\ now = StartOfRun
    /\ ticks = 0
    /\ pc = "done"
    /\ k = 1
    /\ range = NoRange
    /\ historical_data = <<>>
    /\ every_date = {}
    /\ own = NoRange
    /\ start_currency_adjustment = Num(1)
    /\ end_currency_adjustment = Num(1)
    /\ pending = NoResponse
    /\ quotes = <<>>
    /\ own_quotes = <<>>
    /\ returns = NoReturns
    /\ fetches = <<>>
    /\ faults = 0
    /\ answers = <<>>
    /\ outcome = Running

\* one iteration of the first loop: tx.clone() and thread::spawn, which panics when
\* the system refuses the thread
SpawnThread ==
    /\ expected.pc = "spawn"
    /\ LET i == 1 + Cardinality({w \in 1..Simulations : workers[w] # "unspawned"})
       IN  \E refused \in BOOLEAN :
               IF refused
               THEN /\ expected' = [pc |-> "returned", result |-> YPanic("failed to spawn thread")]
                    /\ UNCHANGED workers
               ELSE /\ workers' = [workers EXCEPT ![i] = "running"]
                    /\ expected' = [expected EXCEPT !.pc = IF i = Simulations THEN "recv" ELSE "spawn"]
    /\ UNCHANGED <<engine, parsing, values, channel, v>>

\* the thread's closure: it computes its sample and sends it; the send fails, unnoticed,
\* when the receiver is gone; the thread ends and its Sender is dropped
SendSample(w) ==
    /\ workers[w] = "running"
    /\ \E data \in Samples :
          channel' = IF expected.pc = "returned" THEN channel ELSE Append(channel, data)
    /\ workers' = [workers EXCEPT ![w] = "sent"]
    /\ UNCHANGED <<engine, parsing, values, v, expected>>

\* the thread panics before tx.send: it ends, and its Sender is dropped
EndWithoutSending(w) ==
    /\ workers[w] = "running"
    /\ workers' = [workers EXCEPT ![w] = "ended"]
    /\ UNCHANGED <<engine, parsing, values, channel, v, expected>>

\* one iteration of the second loop, `v.push(rx.recv()?)`: recv takes the oldest
\* sample, returns Err(RecvError) when the channel is empty and no Sender is left,
\* and blocks otherwise
Receive ==
    /\ expected.pc = "recv"
    /\ IF channel # <<>>
       THEN /\ v' = Append(v, Head(channel))
            /\ channel' = Tail(channel)
            /\ expected' = [expected EXCEPT !.pc = IF Len(v) + 1 = Simulations THEN "average"
                                                   ELSE "recv"]
       ELSE /\ Senders = 0
            /\ expected' = [pc |-> "returned", result |-> YErr("RecvError")]
            /\ UNCHANGED <<v, channel>>
    /\ UNCHANGED <<engine, parsing, values, workers>>

\* the returns of the samples and `Ok(returns.iter().sum::<f64>() / returns.len() as f64)`
ReturnAverage ==
    /\ expected.pc = "average"
    /\ expected' = [pc |-> "returned", result |-> YOk(Average(v))]
    /\ UNCHANGED <<engine, parsing, values, workers, channel, v>>

ExpectedNext ==
    \/ SpawnThread
    \/ \E w \in 1..Simulations : SendSample(w)
    \/ \E w \in 1..Simulations : EndWithoutSending(w)
    \/ Receive
    \/ ReturnAverage

\* every thread that can take a step is scheduled eventually
ExpectedSpec == ExpectedInit /\ [][ExpectedNext]_vars /\ WF_vars(ExpectedNext)

-----------------------------------------------------------------------------
(* total_returns as a function of the portfolio, for a service that answers    *)
(* every request and a clock that stands still during the invocation           *)

\* find_dates
find_dates(item, instant) ==
    LET idx == 1..Len(item)
        ranges == [i \in idx |-> get_range(item[i], instant)]
        global == GlobalRange(ranges)
        data == [i \in idx |-> get_quotes(item[i].ticker, global.start, global.end, instant)]
    IN  IF \E i \in idx : ~ranges[i].ok THEN [outcome |-> Err("ComponentRange"), every_date |-> {}]
        ELSE IF Len(item) = 0 THEN [outcome |-> Panic("index out of bounds"), every_date |-> {}]
        ELSE IF \E i \in idx : ~data[i].ok THEN [outcome |-> Err("ProviderError"), every_date |-> {}]
        ELSE [outcome |-> Running, every_date |-> CalendarOf([i \in idx |-> data[i].quotes])]

\* the loop `for n in item.portfolio.iter()` from equity i on
RECURSIVE EquityLoop(_, _, _, _, _, _)
EquityLoop(rets, item, i, calendar, instant, checks) ==
    IF i > Len(item) THEN [outcome |-> Ok(Collect(rets)), returns |-> rets]
    ELSE
        LET n == item[i]
            r == get_range(n, instant)
            start_adj == check_currency(n.ticker, r.start, instant)
            end_adj == check_currency(n.ticker, r.end, instant)
            qs == get_quotes(n.ticker, r.start, r.end, instant)
            acc == EquityFold(rets, n, qs.quotes, calendar, start_adj.rate, end_adj.rate, checks)
        IN  IF ~r.ok THEN [outcome |-> Err("ComponentRange"), returns |-> rets]
            ELSE IF ~start_adj.ok \/ ~end_adj.ok \/ ~qs.ok
            THEN [outcome |-> Err("ProviderError"), returns |-> rets]
            ELSE IF acc.panic # "" THEN [outcome |-> Panic(acc.panic), returns |-> acc.returns]
            ELSE EquityLoop(acc.returns, item, i + 1, calendar, instant, checks)

total_returns(item, instant, checks) ==
    LET found == find_dates(item, instant)
    IN  IF found.outcome.kind # "running" THEN [outcome |-> found.outcome, returns |-> NoReturns]
        ELSE EquityLoop(NoReturns, item, 1, found.every_date, instant, checks)

-----------------------------------------------------------------------------
(* Properties *)

RLess(a, b) == a.n * b.d < b.n * a.d

Done == pc = "done"

Succeeded == pc = "done" /\ outcome.kind = "ok"

\* the service answered every request and the clock stood still
Undisturbed == faults = 0 /\ ticks = 0

\* the day of a calendar date does not exist in its month (the month being one of 1..12)
InvalidDay(date) ==
    /\ date.month \in 1..12
    /\ ~(date.day >= 1 /\ date.day <= DaysInMonth(date.year, date.month))

MonthOutOfRange(date) == date.month \notin 1..12

RECURSIVE SumCapital(_)
SumCapital(positions) ==
    IF positions = <<>> THEN Num(0)
    ELSE RAdd(RMul(Head(positions).old_price, Num(Head(positions).quantity)),
              SumCapital(Tail(positions)))

RECURSIVE SumValue(_)
SumValue(positions) ==
    IF positions = <<>> THEN Num(0)
    ELSE RAdd(RMul(Head(positions).price, Num(Head(positions).quantity)),
              SumValue(Tail(positions)))

\* r_j: value at day end over capital at day start
RateOf(positions) == RDiv(SumValue(positions), SumCapital(positions))

RECURSIVE ProductOfRates(_, _)
ProductOfRates(rets, dates) ==
    IF dates = {} THEN Num(1)
    ELSE LET d == CHOOSE x \in dates : \A y \in dates : x <= y
         IN  RMul(RateOf(rets[d]), ProductOfRates(rets, dates \ {d}))

DatesOf(qs) == {DateOfTimestamp(qs[i].timestamp) : i \in 1..Len(qs)}

C1_Portfolio == <<Equity("T", Transaction(TDate(2023, 2, 1), 100), FALSE, NoSell, 1)>>

C1_Case ==
    /\ portfolio = C1_Portfolio
    /\ Done
    /\ quotes = <<Quote(D1, 100, 100), Quote(D2, 110, 110), Quote(D3, 105, 105)>>
    /\ start_currency_adjustment = Num(1)
    /\ end_currency_adjustment = Num(1)

\* C1 as stated: the scenario of the single unsold equity bought 2023-02-01 at 100
\* (quotes 100, 110, 105, close = adjusted close, USD) returns 0.0 and 10.0 for the
\* first two dates and approximately 4.545 for 2023-02-03.
C1_Scenario_Stated ==
    C1_Case =>
        /\ outcome.kind = "ok"
        /\ DOMAIN outcome.result = {<<2023, 2, 1>>, <<2023, 2, 2>>, <<2023, 2, 3>>}
        /\ outcome.result[<<2023, 2, 1>>] = Num(0)
        /\ outcome.result[<<2023, 2, 2>>] = Num(10)
        /\ RLess(Rat(4540, 1000), outcome.result[<<2023, 2, 3>>])
        /\ RLess(outcome.result[<<2023, 2, 3>>], Rat(4550, 1000))

\* C1 amended: in that scenario total_returns returns exactly the three dates, with
\* 0.0, 10.0 and 5.0: the third value is (1.10 * 105/110 - 1) * 100 = 5.
C1_Scenario ==
    C1_Case =>
        outcome = Ok([s \in {<<2023, 2, 1>>, <<2023, 2, 2>>, <<2023, 2, 3>>} |->
                        IF s = <<2023, 2, 1>> THEN Num(0)
                        ELSE IF s = <<2023, 2, 2>> THEN Num(10) ELSE Num(5)])

C1_Witness == C1_Case /\ outcome.kind = "ok" /\ Undisturbed

\* C2: whenever total_returns succeeds, the result has one entry per date with
\* positions, and the value of each date is (r_1 * ... * r_i - 1) * 100 over the dates
\* up to it in ascending order, r_j being sum(price * quantity) / sum(old_price *
\* quantity) of the date's positions; so the first date's value is (r_1 - 1) * 100.
C2_CumulativeProduct ==
    Succeeded =>
        /\ DOMAIN outcome.result = {DateToString(d) : d \in DOMAIN returns}
        /\ \A d \in DOMAIN returns :
            outcome.result[DateToString(d)] =
                RMul(RSub(ProductOfRates(returns, {x \in DOMAIN returns : x <= d}), Num(1)),
                     Num(100))

C2_Witness ==
    /\ Succeeded
    /\ Cardinality(DOMAIN returns) >= 3
    /\ Len(portfolio) = 2
    /\ \A d \in DOMAIN returns : outcome.result[DateToString(d)] # Num(0)
    /\ \E d \in DOMAIN returns : \A x \in DOMAIN returns :
          /\ d <= x
          /\ outcome.result[DateToString(d)] = RMul(RSub(RateOf(returns[d]), Num(1)), Num(100))

\* the single equity's own series is one quote whose close, adjusted close and buy
\* price coincide, the instrument is unsold and in USD, and the fold has run
C3_Case ==
    /\ Done
    /\ faults = 0
    /\ Len(portfolio) = 1
    /\ ~portfolio[1].sold
    /\ own_quotes = <<quotes>>
    /\ Len(quotes) = 1
    /\ quotes[1].close = quotes[1].adjclose
    /\ quotes[1].close = portfolio[1].buy.price
    /\ start_currency_adjustment = Num(1)
    /\ end_currency_adjustment = Num(1)

\* C3: for a single unsold USD equity whose own series is exactly one quote with
\* close = adjusted close = buy price, total_returns completes successfully and
\* returns exactly one entry, for that date, with value 0.
C3_SingleQuoteZero ==
    C3_Case =>
        outcome = Ok([s \in {DateToString(DateOfTimestamp(quotes[1].timestamp))} |-> Num(0)])

\* equity a's own series has the dates {x1, x3}, equity b's {x1, x2, x3}
C4_Case(a, b, x1, x2, x3) ==
    /\ Succeeded
    /\ Len(portfolio) = 2
    /\ a # b
    /\ x1 < x2 /\ x2 < x3
    /\ DatesOf(own_quotes[a]) = {x1, x3}
    /\ DatesOf(own_quotes[b]) = {x1, x2, x3}
    /\ Len(own_quotes[a]) = 2
    /\ Len(own_quotes[b]) = 3

\* C4: with equity A trading on {d1, d3} and equity B on {d1, d2, d3}, the result has
\* entries for exactly d1, d2, d3; on d2 A contributes one position with old_price =
\* price, so d2's rate is 1 + (B's gain) / (capital of both).
C4_GapBackfill ==
    \A a \in 1..2, b \in 1..2 : \A x1 \in every_date, x2 \in every_date, x3 \in every_date :
        C4_Case(a, b, x1, x2, x3) =>
            /\ DOMAIN outcome.result = {DateToString(x1), DateToString(x2), DateToString(x3)}
            /\ DOMAIN returns = {x1, x2, x3}
            /\ Len(returns[x2]) = 2
            /\ returns[x2][a].quantity = portfolio[a].quantity
            /\ returns[x2][a].old_price = returns[x2][a].price
            /\ RSub(RateOf(returns[x2]), Num(1)) =
                   RDiv(RMul(RSub(returns[x2][b].price, returns[x2][b].old_price),
                             Num(returns[x2][b].quantity)),
                        SumCapital(returns[x2]))

C4_Witness ==
    \E a \in 1..2, b \in 1..2 : \E x1 \in every_date, x2 \in every_date, x3 \in every_date :
        /\ C4_Case(a, b, x1, x2, x3)
        /\ a = 1
        /\ returns[x2][b].price # returns[x2][b].old_price
        /\ own_quotes[a][2].close # own_quotes[a][1].adjclose

\* the same position reported directly in USD: the mirror instrument, prices times k
Mirror(n) ==
    [n EXCEPT !.ticker = "U",
              !.buy.price = RMul(@, Num(FxRate)),
              !.sell.price = RMul(@, Num(FxRate))]

\* C5: a single equity of a non-USD instrument with the constant exchange rate k
\* yields on every date the same percentage as the same equity reported directly in
\* USD (close k*c, adjusted close k*a, transaction prices times k, FX factors 1.0).
C5_FxInvariance ==
    (/\ Succeeded
     /\ Undisturbed
     /\ Len(portfolio) = 1
     /\ portfolio[1].ticker = "E"
     /\ start_currency_adjustment = Num(FxRate)
     /\ end_currency_adjustment = Num(FxRate))
        => total_returns(<<Mirror(portfolio[1])>>, StartOfRun, overflow_checks).outcome = outcome

\* C6: when some equity's buy date has a day that does not exist in its month,
\* total_returns issues no request to the provider, builds nothing, and ends at once
\* with the invalid-date error.
C6_InvalidBuyDay ==
    (\E i \in 1..Len(portfolio) : InvalidDay(portfolio[i].buy.date)) =>
        /\ fetches = <<>>
        /\ returns = NoReturns
        /\ pc \in {"find_dates", "done"}
        /\ (pc = "done" => outcome = Err("ComponentRange"))
        /\ (pc = "find_dates" => outcome = Running)

C6_Witness ==
    /\ Done
    /\ Len(portfolio) = 2
    /\ ~InvalidDay(portfolio[1].buy.date)
    /\ InvalidDay(portfolio[2].buy.date)

\* C7: an equity with a sell date that is no calendar date makes total_returns end
\* with the invalid-date error, and no substitute date is used as the query end.
C7_InvalidSellDay ==
    (\E i \in 1..Len(portfolio) : portfolio[i].sold /\ InvalidDay(portfolio[i].sell.date)) =>
        /\ (Done => outcome = Err("ComponentRange"))
        /\ range.end.date # DateMIN
        /\ own.end.date # DateMIN

\* C8: a buy or sell transaction with a month outside 1..12 makes total_returns end
\* with the invalid-date error (whenever it ends with an error of its own or a
\* result, that is, unless the provider failed or the run panicked).
C8_MonthOutOfRange ==
    (/\ Done
     /\ outcome.kind # "panic"
     /\ outcome # Err("ProviderError")
     /\ \E i \in 1..Len(portfolio) :
            \/ MonthOutOfRange(portfolio[i].buy.date)
            \/ portfolio[i].sold /\ MonthOutOfRange(portfolio[i].sell.date))
        => outcome = Err("ComponentRange")

Scaled(item, s) == [i \in 1..Len(item) |-> [item[i] EXCEPT !.quantity = @ * s]]

WithQuantity(item, q) == [i \in 1..Len(item) |-> [item[i] EXCEPT !.quantity = q]]

\* C9: with an undisturbed provider, multiplying every equity's quantity by the same
\* positive integer leaves what total_returns returns unchanged, and a single-equity
\* portfolio returns the same for every quantity > 0: each of its dates has one
\* position, with capital old_price * quantity and value price * quantity.
C9_QuantityInvariance ==
    (Done /\ Undisturbed) =>
        /\ \A s \in 1..MaxScale :
            total_returns(Scaled(portfolio, s), StartOfRun, overflow_checks).outcome = outcome
        /\ Len(portfolio) = 1 =>
            \A q \in 1..(MaxQuantity * MaxScale) :
                total_returns(WithQuantity(portfolio, q), StartOfRun, overflow_checks).outcome
                    = outcome
        /\ (Len(portfolio) = 1 /\ outcome.kind = "ok") =>
            \A d \in DOMAIN returns :
                /\ Len(returns[d]) = 1
                /\ Capital(returns[d], 1) = RMul(returns[d][1].old_price, Num(portfolio[1].quantity))
                /\ SumValue(returns[d]) = RMul(returns[d][1].price, Num(portfolio[1].quantity))

C9_Witness ==
    /\ Succeeded
    /\ Undisturbed
    /\ MaxScale >= 2
    /\ Len(portfolio) = 2
    /\ portfolio[1].quantity # portfolio[2].quantity
    /\ \E d \in DOMAIN returns :
          /\ Len(returns[d]) = 2
          /\ outcome.result[DateToString(d)] # Num(0)

Reversed(item) == [i \in 1..Len(item) |-> item[Len(item) + 1 - i]]

\* C10: the rate folded for each date is sum(price * quantity) / sum(old_price *
\* quantity) over the date's positions, and with an undisturbed provider the same
\* dates get the same rates when the equities are given in the opposite order.
C10_RateOrderIndependent ==
    (Succeeded /\ Undisturbed) =>
        LET other == total_returns(Reversed(portfolio), StartOfRun, overflow_checks)
        IN  /\ \A d \in DOMAIN returns : DayRate(returns[d]) = RateOf(returns[d])
            /\ other.outcome.kind = "ok"
            /\ DOMAIN other.returns = DOMAIN returns
            /\ \A d \in DOMAIN returns : DayRate(other.returns[d]) = DayRate(returns[d])

C10_Witness ==
    /\ Succeeded
    /\ Undisturbed
    /\ Len(portfolio) = 2
    /\ \E d \in DOMAIN returns :
          /\ Len(returns[d]) = 2
          /\ RDiv(returns[d][1].price, returns[d][1].old_price)
                # RDiv(returns[d][2].price, returns[d][2].old_price)
          /\ returns[d][1].quantity # returns[d][2].quantity

-----------------------------------------------------------------------------
(* Properties of the provider requests *)

Requests == 1..Len(answers)

\* check_currency's request for the instrument's metadata
IsMetadata(i) == answers[i].step \in {"start", "end"} /\ ~answers[i].fx

\* the request was the last one, and total_returns returned an error without a mapping
AbortedAt(i) ==
    /\ i = Len(fetches)
    /\ pc = "done"
    /\ outcome.kind = "err"
    /\ outcome.error = "ProviderError"
    /\ DOMAIN outcome.result = {}

\* C11 as stated: whenever a provider fetch of the invocation fails, whichever it is
\* (global-range, own-range, FX series, or one made while resolving an FX rate),
\* total_returns returns an error and no mapping and issues no further fetch.
C11_AnyFailureAborts ==
    \A i \in Requests : ~answers[i].ok => AbortedAt(i)

\* C11 amended: a failed fetch other than check_currency's metadata fetch makes
\* total_returns return the provider error with no mapping and issue no further fetch;
\* a failed metadata fetch does not end the invocation.
C11_FailureAborts ==
    /\ \A i \in Requests : (~answers[i].ok /\ ~IsMetadata(i)) => AbortedAt(i)
    /\ \A i \in Requests :
          (~answers[i].ok /\ IsMetadata(i) /\ i = Len(answers)) => (pc # "done" /\ outcome = Running)

C11_Witness ==
    /\ pc = "done"
    /\ Len(own_quotes) >= 1
    /\ \E i \in Requests, j \in Requests :
          /\ i < j
          /\ IsMetadata(i) /\ ~answers[i].ok
          /\ answers[j].step = "own" /\ ~answers[j].ok

\* the requests check_currency(ticker of equity k, start / end) has issued
MetaOf(which) == {i \in Requests : answers[i].step = which /\ ~answers[i].fx /\ answers[i].equity = k}

FxOf(which) == {i \in Requests : answers[i].step = which /\ answers[i].fx /\ answers[i].equity = k}

\* the first quote the service holds for `symbol` on calendar day `day`
FirstOn(symbol, day) ==
    LET qs == History(symbol).quotes
        on == {j \in 1..Len(qs) : DateOfTimestamp(qs[j].timestamp) = day}
    IN  qs[CHOOSE j \in on : \A j2 \in on : j <= j2]

\* C12: check_currency(ticker, date) asks for the instrument's metadata over one
\* instant; when that fetch fails, the metadata cannot be read or the currency is USD
\* it returns 1.0 without a further request; when the currency is CCY # USD it fetches
\* "CCY=X" over [date, date] and returns the close of its first quote, and when that
\* fetch fails or has no quote it returns the error, not 1.0.
C12_CheckCurrency ==
    \A which \in {"start", "end"} : \A m \in MetaOf(which) :
        LET a == answers[m]
            date == IF which = "start" THEN own.start ELSE own.end
            rate == IF which = "start" THEN start_currency_adjustment
                    ELSE end_currency_adjustment
        IN  /\ fetches[m].symbol = portfolio[k].ticker
            /\ fetches[m].start = fetches[m].end
            /\ (~a.ok \/ a.currency = "USD") =>
                  /\ rate = Num(1)
                  /\ FxOf(which) = {}
                  /\ m = Len(answers) => (pc # "done" /\ pc # which \o "_rate_fx")
            /\ (a.ok /\ a.currency # "USD") =>
                  /\ m = Len(answers) => pc = which \o "_rate_fx"
                  /\ \A f \in FxOf(which) :
                        /\ f = m + 1
                        /\ fetches[f] = Request(a.currency \o "=X", date, date)
                        /\ IF answers[f].ok
                           THEN /\ rate = FirstOn(a.currency \o "=X", date.date).close
                                /\ f = Len(answers) => pc # "done"
                           ELSE /\ AbortedAt(f)

C12_Witness ==
    /\ pc = "equity_quotes"
    /\ portfolio[k].ticker = "G"
    /\ start_currency_adjustment = Num(FxRate)
    /\ end_currency_adjustment = Num(1)
    /\ \E m \in MetaOf("end") : ~answers[m].ok

\* the instrument requests of get_quotes that were answered in a non-USD currency and
\* whose FX series request was answered too
Converted ==
    {i \in Requests : /\ answers[i].step \in {"calendar", "own"}
                      /\ ~answers[i].fx /\ answers[i].ok /\ answers[i].currency # "USD"
                      /\ i < Len(answers) /\ answers[i + 1].ok}

\* what get_quotes returned for the instrument request i
Returned(i) ==
    IF answers[i].step = "calendar" THEN historical_data[answers[i].equity]
    ELSE IF answers[i].equity <= Len(own_quotes) THEN own_quotes[answers[i].equity]
    ELSE quotes

\* the FX quote the claim names for quote q: the first of q's UTC date, else the last
Multiplier(q, currency_quotes) ==
    LET same == {x \in 1..Len(currency_quotes) :
                    DateToString(DateOfTimestamp(currency_quotes[x].timestamp))
                        = DateToString(DateOfTimestamp(q.timestamp))}
    IN  IF same = {} THEN currency_quotes[Len(currency_quotes)].adjclose
        ELSE currency_quotes[CHOOSE x \in same : \A y \in same : x <= y].adjclose

\* C13: for a non-USD instrument every quote get_quotes returns has the native
\* adjusted close times the adjusted close of the first FX quote of the same UTC
\* calendar date, or of the last FX quote of the fetched range when none has that date.
C13_FxMultiplier ==
    \A i \in Converted :
        /\ Len(Returned(i)) = Len(answers[i].quotes)
        /\ \A j \in 1..Len(answers[i].quotes) :
              Returned(i)[j].adjclose =
                  RMul(answers[i].quotes[j].adjclose,
                       Multiplier(answers[i].quotes[j], answers[i + 1].quotes))

\* the GBP instrument over the three days: same-date FX quotes for the first and the
\* third (which has two), none for the second
C13_Witness ==
    /\ pc = "fold"
    /\ portfolio[k].ticker = "G"
    /\ Len(quotes) = 3
    /\ \E i \in Converted :
          /\ answers[i].step = "own"
          /\ Len(answers[i + 1].quotes) = 3
          /\ quotes[1].adjclose = RMul(answers[i].quotes[1].adjclose, Num(FxRate))
          /\ quotes[2].adjclose = RMul(answers[i].quotes[2].adjclose, Num(FxRate + 2))
          /\ quotes[3].adjclose = RMul(answers[i].quotes[3].adjclose, Num(FxRate + 1))

\* C14: currency normalization changes only the adjusted close: the series returned
\* for a non-USD instrument has the native length and order and every other field of
\* every quote as the service gave it; a USD instrument's series is returned
\* unchanged and no FX series is requested for it.
C14_OnlyAdjclose ==
    /\ \A i \in Converted :
          /\ Len(Returned(i)) = Len(answers[i].quotes)
          /\ \A j \in 1..Len(answers[i].quotes) :
                [Returned(i)[j] EXCEPT !.adjclose = answers[i].quotes[j].adjclose]
                    = answers[i].quotes[j]
    /\ \A i \in Requests :
          (/\ answers[i].step \in {"calendar", "own"}
           /\ ~answers[i].fx /\ answers[i].ok /\ answers[i].currency = "USD") =>
              /\ Returned(i) = answers[i].quotes
              /\ \A f \in Requests :
                    ~(/\ answers[f].fx
                      /\ answers[f].step = answers[i].step
                      /\ answers[f].equity = answers[i].equity)

C14_Witness ==
    /\ Succeeded
    /\ Len(portfolio) = 2
    /\ portfolio[1].ticker = "E"
    /\ portfolio[2].ticker = "B"
    /\ \E i \in Converted :
          /\ answers[i].step = "own"
          /\ Returned(i)[1].adjclose # answers[i].quotes[1].adjclose
          /\ Returned(i)[1].close = answers[i].quotes[1].close
          /\ answers[i].quotes[1].close # answers[i].quotes[1].adjclose

Rank(step) == CASE step = "calendar" -> 0 [] step = "start" -> 1 [] step = "end" -> 2 [] OTHER -> 3

\* the order in which sequential code issues two requests: the calendar union first,
\* then equity by equity, each equity's start rate, end rate and own series, every
\* instrument's request before its FX pair's
Precedes(a, b) ==
    \/ a.step = "calendar" /\ b.step # "calendar"
    \/ /\ (a.step = "calendar") = (b.step = "calendar")
       /\ \/ a.equity < b.equity
          \/ /\ a.equity = b.equity
             /\ \/ Rank(a.step) < Rank(b.step)
                \/ Rank(a.step) = Rank(b.step) /\ ~a.fx /\ b.fx

\* C17: the fetches of one invocation are issued one at a time, each after the
\* previous one has completed, in portfolio order, and the global-range fetches of
\* the calendar union have completed for every equity before the first FX-rate
\* resolution or own-range fetch of any equity is issued.
C17_SequentialFetches ==
    /\ Len(answers) = Len(fetches)
    /\ \A i \in Requests : i < Len(answers) => Precedes(answers[i], answers[i + 1])
    /\ \A i \in Requests :
          /\ ~answers[i].fx => fetches[i].symbol = portfolio[answers[i].equity].ticker
          /\ i < Len(answers) => (answers[i].ok \/ IsMetadata(i))
    /\ \A j \in Requests :
          answers[j].step # "calendar" =>
              /\ Len(historical_data) = Len(portfolio)
              /\ \A e \in 1..Len(portfolio) : \E i \in 1..(j - 1) :
                    /\ answers[i].step = "calendar" /\ answers[i].equity = e
                    /\ ~answers[i].fx /\ answers[i].ok
                    /\ answers[i].currency # "USD" =>
                          /\ i + 1 < j
                          /\ answers[i + 1].step = "calendar" /\ answers[i + 1].fx
                          /\ answers[i + 1].ok
              /\ answers[j].equity > 1 =>
                    \E i \in 1..(j - 1) :
                        answers[i].step = "own" /\ answers[i].equity = answers[j].equity - 1

C17_Witness ==
    /\ Succeeded
    /\ Len(portfolio) = 2
    /\ portfolio[1].ticker = "B"
    /\ portfolio[2].ticker = "E"
    /\ Len(answers) = 12
    /\ \E i \in Requests : IsMetadata(i) /\ ~answers[i].ok

-----------------------------------------------------------------------------
(* Properties of the per-equity fold *)

\* the fold of the equity `Folded` has just completed without a panic: its FX factors
\* and its range are still the ones in the state
Folded == Len(own_quotes)

JustFolded ==
    /\ Len(own_quotes) >= 1
    /\ \/ pc = "equity_range" /\ k = Folded + 1
       \/ pc = "collect" /\ k = Folded
       \/ Succeeded /\ k = Folded

\* the position the equity just folded contributed to `date`: the last one pushed there
Contributed(date) == returns[date][Len(returns[date])]

Rescale(value, m) == RDiv(RMul(value, m.close), m.adjclose)

\* old_price when the loop reaches quote j (counted from 1) of the equity just folded
CarriedInto(j) ==
    IF j = 1 THEN RMul(portfolio[Folded].buy.price, start_currency_adjustment)
    ELSE Carry(own_quotes[Folded][j - 1], j - 2, Len(own_quotes[Folded]), end_currency_adjustment)

\* C18: for an equity with at least two own quotes the positions are: first quote
\* (buy price in USD * close/adjclose, close * start FX factor * close/adjclose); last
\* quote (carried value * close/adjclose, sell price in USD * close/adjclose if sold,
\* else the adjusted close); any other quote (carried value, adjusted close).
C18_Positions ==
    (JustFolded /\ Len(own_quotes[Folded]) >= 2) =>
        LET n == portfolio[Folded]
            qs == own_quotes[Folded]
        IN  \A j \in 1..Len(qs) :
                LET m == qs[j]
                    position == Contributed(DateOfTimestamp(m.timestamp))
                    carried == CarriedInto(j)
                    buy_usd == RMul(n.buy.price, start_currency_adjustment)
                    sell_usd == RMul(n.sell.price, end_currency_adjustment)
                IN  /\ position.quantity = n.quantity
                    /\ j = 1 =>
                          /\ position.old_price = Rescale(buy_usd, m)
                          /\ position.price = Rescale(RMul(m.close, start_currency_adjustment), m)
                    /\ j = Len(qs) =>
                          /\ position.old_price = Rescale(carried, m)
                          /\ position.price = IF n.sold THEN Rescale(sell_usd, m) ELSE m.adjclose
                    /\ (1 < j /\ j < Len(qs)) =>
                          /\ position.old_price = carried
                          /\ position.price = m.adjclose

C18_Witness ==
    /\ JustFolded
    /\ Folded = 2
    /\ portfolio[Folded].sold
    /\ Len(own_quotes[Folded]) = 3
    /\ start_currency_adjustment = Num(FxRate)
    /\ \A j \in 1..3 :
          /\ j # 1 => own_quotes[Folded][j].close # own_quotes[Folded][j].adjclose
          /\ Len(returns[DateOfTimestamp(own_quotes[Folded][j].timestamp)]) = 2

\* C19: the value carried into the next quote's old_price after quote i is quote i's
\* adjusted close, except when quote i+1 is the last of the series: then it is quote
\* i's close times the end FX factor; it starts as buy price * start FX factor, for
\* every equity anew.
C19_CarryRule ==
    JustFolded =>
        LET n == portfolio[Folded]
            qs == own_quotes[Folded]
        IN  /\ CarriedInto(1) = RMul(n.buy.price, start_currency_adjustment)
            /\ \A j \in 1..(Len(qs) - 1) :
                  CarriedInto(j + 1) =
                      IF j + 1 = Len(qs) THEN RMul(qs[j].close, end_currency_adjustment)
                      ELSE qs[j].adjclose
            /\ Contributed(DateOfTimestamp(qs[1].timestamp)).old_price =
                  Rescale(RMul(n.buy.price, start_currency_adjustment), qs[1])
            /\ \A j \in 2..Len(qs) :
                  Contributed(DateOfTimestamp(qs[j].timestamp)).old_price =
                      IF j = Len(qs)
                      THEN Rescale(RMul(qs[j - 1].close, end_currency_adjustment), qs[j])
                      ELSE qs[j - 1].adjclose

C19_Witness ==
    /\ JustFolded
    /\ Folded = 2
    /\ Len(own_quotes[1]) >= 2
    /\ Len(own_quotes[Folded]) = 3
    /\ end_currency_adjustment = Num(FxRate)
    /\ own_quotes[Folded][2].close # own_quotes[Folded][2].adjclose

\* the calendar dates the equity just folded skipped before its quote j
SkippedBefore(j) ==
    {d \in every_date : /\ DateOfTimestamp(own_quotes[Folded][j - 1].timestamp) < d
                        /\ d < DateOfTimestamp(own_quotes[Folded][j].timestamp)}

\* C20: every position synthesized for a skipped date has old_price and price equal
\* to the carried-forward value itself, whatever the close and the adjusted close of
\* the quote that follows the gap.
C20_BackfillCarried ==
    JustFolded =>
        \A j \in 2..Len(own_quotes[Folded]) : \A d \in SkippedBefore(j) :
            /\ Contributed(d).old_price = CarriedInto(j)
            /\ Contributed(d).price = CarriedInto(j)

-----------------------------------------------------------------------------
(* Properties of YResponse::quotes and YResponse::metadata *)

\* the response has a block, and the block its quote arrays (and, when it names
\* adjusted closes, their array)
HasArrays ==
    /\ y_response.result # <<>>
    /\ y_response.result[1].indicators.quote # <<>>
    /\ y_response.result[1].indicators.adjclose # Some(<<>>)

Block == y_response.result[1]

\* some array of the block is not as long as the timestamps
Mismatch ==
    LET n == Len(Block.timestamp)
        quote == Block.indicators.quote[1]
    IN  \/ Len(quote.open) # n
        \/ Len(quote.high) # n
        \/ Len(quote.low) # n
        \/ Len(quote.close) # n
        \/ Len(quote.volume) # n
        \/ /\ Block.indicators.adjclose # None
           /\ Len(Block.indicators.adjclose[1][1].adjclose) # n

\* the calls of quotes() and metadata() made so far returned this error and nothing else
BothReturn(error) ==
    /\ y_quotes # NotCalled => (y_quotes.kind = "err" /\ y_quotes = [kind |-> "err", error |-> error])
    /\ y_metadata # NotCalled =>
          (y_metadata.kind = "err" /\ y_metadata = [kind |-> "err", error |-> error])

\* C15: quotes() and metadata() validate the block first: with no timestamp they
\* return the empty-data-set error; with timestamps and an open, high, low, close or
\* volume array, or a present adjusted-close array, of another length they return the
\* data-inconsistency error; no Quote is produced in either case.
C15_Validation ==
    HasArrays =>
        /\ Len(Block.timestamp) = 0 => BothReturn("EmptyDataSet")
        /\ (Len(Block.timestamp) > 0 /\ Mismatch) => BothReturn("DataInconsistency")

C15_Witness ==
    /\ HasArrays
    /\ y_quotes = [kind |-> "err", error |-> "DataInconsistency"]
    /\ y_metadata = y_quotes
    /\ Len(Block.timestamp) = MaxLen
    /\ Len(Block.indicators.quote[1].open) = MaxLen
    /\ Len(Block.indicators.quote[1].high) = MaxLen
    /\ Len(Block.indicators.quote[1].low) = MaxLen
    /\ Len(Block.indicators.quote[1].close) = MaxLen
    /\ Len(Block.indicators.quote[1].volume) = MaxLen
    /\ Block.indicators.adjclose # None
    /\ Len(Block.indicators.adjclose[1][1].adjclose) = MaxLen - 1

\* the indices of the block whose close is set
WithClose == {i \in 1..Len(Block.timestamp) : Block.indicators.quote[1].close[i] # None}

\* the j-th of them, in index order
NthWithClose(j) == CHOOSE i \in WithClose : Cardinality({x \in WithClose : x <= i}) = j

\* C16: for a validated block quotes() returns one Quote per index whose close is
\* set, in index order, with that index's timestamp and close; an index without close
\* is skipped; an open, high or low that is not set becomes 0.0, a volume 0, and the
\* adjusted close is 0.0 when the block has no adjusted-close array.
C16_Projection ==
    (/\ HasArrays
     /\ Len(Block.timestamp) > 0
     /\ ~Mismatch
     /\ y_quotes # NotCalled) =>
        /\ y_quotes.kind = "ok"
        /\ Len(y_quotes.value) = Cardinality(WithClose)
        /\ \A j \in 1..Len(y_quotes.value) :
              LET i == NthWithClose(j)
                  q == y_quotes.value[j]
                  quote == Block.indicators.quote[1]
              IN  /\ q.timestamp = Block.timestamp[i]
                  /\ Some(q.close) = quote.close[i]
                  /\ q.open = (IF quote.open[i] = None THEN Num(0) ELSE quote.open[i][1])
                  /\ q.high = (IF quote.high[i] = None THEN Num(0) ELSE quote.high[i][1])
                  /\ q.low = (IF quote.low[i] = None THEN Num(0) ELSE quote.low[i][1])
                  /\ q.volume = (IF quote.volume[i] = None THEN 0 ELSE quote.volume[i][1])
                  /\ Block.indicators.adjclose = None => q.adjclose = Num(0)
                  /\ Block.indicators.adjclose # None =>
                        (Block.indicators.adjclose[1][1].adjclose[i] # None
                            => Some(q.adjclose) = Block.indicators.adjclose[1][1].adjclose[i])

C16_Witness ==
    /\ HasArrays
    /\ Len(Block.timestamp) = MaxLen
    /\ ~Mismatch
    /\ y_quotes.kind = "ok"
    /\ Len(y_quotes.value) = MaxLen - 1
    /\ Block.indicators.quote[1].close[1] = None
    /\ Block.indicators.quote[1].open[MaxLen] = None
    /\ Block.indicators.quote[1].volume[MaxLen] = None
    /\ Block.indicators.adjclose = None
    /\ y_quotes.value[MaxLen - 1].timestamp = Block.timestamp[MaxLen]

-----------------------------------------------------------------------------
(* Properties of the reconciliation with the global calendar *)

\* the dates of the series are distinct and ascending
Ascending(qs) ==
    \A i \in 1..(Len(qs) - 1) :
        DateOfTimestamp(qs[i].timestamp) < DateOfTimestamp(qs[i + 1].timestamp)

\* `date` lies between the first and the last quote date of equity e, inclusive
Covers(e, date) ==
    /\ DateOfTimestamp(own_quotes[e][1].timestamp) <= date
    /\ date <= DateOfTimestamp(own_quotes[e][Len(own_quotes[e])].timestamp)

PositionsAt(date) == IF date \in DOMAIN returns THEN Len(returns[date]) ELSE 0

\* C21: an equity whose own quote dates are distinct and ascending contributes exactly
\* one position to every calendar date from its first to its last quote date and none
\* to any other date, so that after each fold every date holds one position per folded
\* equity covering it; every synthesized position has old_price = price.
C21_OnePositionPerDate ==
    (JustFolded /\ \A e \in 1..Folded : Ascending(own_quotes[e])) =>
        /\ \A d \in every_date \cup DOMAIN returns :
              PositionsAt(d) = Cardinality({e \in 1..Folded : Covers(e, d)})
        /\ \A d \in every_date :
              (Covers(Folded, d) /\ d \notin DatesOf(own_quotes[Folded])) =>
                  Contributed(d).old_price = Contributed(d).price

C21_Witness ==
    /\ JustFolded
    /\ Folded = 2
    /\ \E d \in every_date : Covers(1, d) /\ d \notin DatesOf(own_quotes[1])
    /\ \E d \in every_date : ~Covers(1, d) /\ Covers(2, d) /\ PositionsAt(d) = 1

\* find_dates has returned the calendar
CalendarBuilt == Len(portfolio) > 0 /\ Len(historical_data) = Len(portfolio)

\* the global-range requests find_dates issued for the instrument of equity e
CalendarRequests(e) ==
    {i \in Requests : answers[i].step = "calendar" /\ ~answers[i].fx /\ answers[i].equity = e}

\* the instants the clock has shown since the invocation started
Instants == {StartOfRun + j * SecondsPerDay : j \in 0..ticks}

ValidDate(date) ==
    /\ date.month \in 1..12
    /\ date.day \in 1..DaysInMonth(date.year, date.month)

\* the seconds of day and the day number of an instant of the clock
InstantOf(t) == [date |-> t \div SecondsPerDay, time |-> t % SecondsPerDay]

\* total_returns holds the range get_range returned for equity k
RangeTaken == pc \in {"start_rate", "start_rate_fx", "end_rate", "end_rate_fx", "equity_quotes",
                      "equity_fx", "fold"}

\* C23: for an equity with valid dates get_range returns start = 00:00:00 UTC of the
\* buy date, and end = 23:59:59 UTC of the sell date when it was sold, otherwise the
\* instant of the clock at the call.
C23_GetRange ==
    LET n == portfolio[k]
    IN  (RangeTaken /\ ValidDate(n.buy.date) /\ (n.sold => ValidDate(n.sell.date))) =>
            /\ own.start = [date |-> DaysFromCivil(n.buy.date.year, n.buy.date.month, n.buy.date.day),
                            time |-> 0]
            /\ n.sold =>
                  own.end = [date |-> DaysFromCivil(n.sell.date.year, n.sell.date.month,
                                                    n.sell.date.day),
                             time |-> 23 * 3600 + 59 * 60 + 59]
            /\ ~n.sold =>
                  /\ \E t \in Instants : own.end = InstantOf(t)
                  /\ ticks = 0 => own.end = InstantOf(now)

C23_Witness ==
    /\ pc = "start_rate"
    /\ k = 2
    /\ portfolio[1].sold
    /\ ~portfolio[2].sold
    /\ ticks = 1
    /\ own.end = InstantOf(now)
    /\ own.end.date = D4
    /\ range.end = own.end

\* C24: every date of every own-range series is a member of the calendar find_dates
\* built, so no lookup of a date in the calendar fails, also when the clock advances
\* and the service publishes a quote between the global-range and the own-range fetch.
C24_LookupsSucceed ==
    /\ pc = "fold" => DatesOf(quotes) \subseteq every_date
    /\ ~(pc = "done" /\ outcome.kind = "panic" /\ outcome.error = "unwrap on None")

-----------------------------------------------------------------------------
(* Properties of the index arithmetic *)

\* C25: for a non-empty own series the fold evaluates quotes.len() - 1 and
\* quotes.len() - 2 only with a non-negative result, and current_index -
\* previous_index only with current_index >= previous_index: no subtraction of the
\* unsigned indices underflows.
C25_NoUnderflow ==
    /\ pc = "fold" =>
          /\ Len(quotes) >= 1 => (Len(quotes) - 1 >= 0 /\ Len(quotes) - 2 >= 0)
          /\ \A i \in 2..Len(quotes) :
                LET previous_date == DateOfTimestamp(quotes[i - 1].timestamp)
                    date == DateOfTimestamp(quotes[i].timestamp)
                IN  (previous_date \in every_date /\ date \in every_date) =>
                        IndexOf(every_date, date) >= IndexOf(every_date, previous_date)
    /\ ~(pc = "done" /\ outcome.kind = "panic" /\ outcome.error = "subtract with overflow")

\* C26: total_returns on a portfolio without equities completes normally, with an
\* empty result mapping or an error value, and without an out-of-bounds access.
C26_EmptyPortfolio ==
    (Done /\ Len(portfolio) = 0) =>
        \/ outcome.kind = "ok" /\ DOMAIN outcome.result = {}
        \/ outcome.kind = "err"

-----------------------------------------------------------------------------
(* Properties of the access to a deserialized response *)

\* C27: for every envelope that deserializes, an empty list of result blocks and a
\* block with an empty list of quote arrays included, YResponse::quotes() and
\* YResponse::metadata() return a value (Ok or Err) and access no element that does
\* not exist.
C27_NoMissingElement ==
    /\ y_quotes.kind \in {"none", "ok", "err"}
    /\ y_metadata.kind \in {"none", "ok", "err"}
    /\ (y_response.result = <<>> /\ y_quotes # NotCalled) => y_quotes.kind = "err"
    /\ (y_response.result = <<>> /\ y_metadata # NotCalled) => y_metadata.kind = "err"

-----------------------------------------------------------------------------
(* Properties of options::expected *)

AllSent == \A w \in 1..Simulations : workers[w] = "sent"

\* C28: options::expected always terminates: as long as it has not returned, a thread
\* can still send or end, or the caller can spawn, receive or return, so it never
\* waits on the channel for good (a thread that ended without sending makes recv
\* return Err(RecvError)); when every thread has sent its one sample it returns Ok
\* after receiving exactly as many samples as there are threads.
C28_ExpectedTerminates ==
    /\ expected.pc = "returned" \/ ENABLED ExpectedNext
    /\ (expected.pc = "returned" /\ AllSent) =>
          /\ expected.result.kind = "ok"
          /\ Len(v) = Simulations

====
